---- MODULE Spec2Model ----
(***************************************************************************)
(* Model of the Solaris event-port watcher of watchman                     *)
(* (src/watcher/portfs.cpp): PortFSWatcher::do_watch, consumeNotify and    *)
(* waitNotify, the registry port_files they share under the watcher lock,  *)
(* and the native event port they drive.                                   *)
(*                                                                         *)
(* Threads: the notify thread LOOP runs waitNotify / consumeNotify; the    *)
(* enumeration threads ArmThreads call do_watch (through startWatchDir /   *)
(* startWatchFile).  Every step of the code between two points where       *)
(* another thread can observe it is one action.                            *)
(***************************************************************************)
EXTENDS Integers, Sequences, FiniteSets, TLC

VARIABLES
    port_files,     \* the registry: set of [name, f] entries of the hash table
    port_file_name, \* f->name of every allocated watchman_port_file, else NoName
    lock,           \* owner of PortFSWatcher::lock, or NoOwner
    assoc,          \* tokens the event port currently holds an association for
    portq,          \* tokens whose event fired and waits in the port, in order
    portevents,     \* portev_user of the entries the last port_getn filled
    i,              \* consumeNotify's loop index (1-based)
    pe,             \* consumeNotify's local pe: portev_events of the entry read
    lname,          \* f->name of the entry read, f being consumeNotify's local
    now,            \* consumeNotify's local struct timeval now
    lerrno,         \* errno of the notify thread
    lpc,            \* position of the notify thread
    lret,           \* what the last consumeNotify call returned
    coll,           \* the pending collection handed to consumeNotify, a set of records
    cancelled,      \* root->inner.cancelled
    aborted,        \* the process was terminated by a fatal log
    pc,             \* position of each enumeration thread
    aname,          \* do_watch's argument name, per thread
    af,             \* do_watch's local f, per thread
    asuccess,       \* do_watch's local success, per thread
    acalled,        \* history: this do_watch call reached port_associate
    apre,           \* history: status of name when this call took the lock
    areg,           \* history: the registry when this call took the lock
    lreg,           \* history: the registry when consumeNotify took the lock
    lpushed,        \* history: names consumeNotify pushed in the current call
    ldeleted,       \* history: names consumeNotify deleted in the current call
    armed,          \* history: paths whose last do_watch succeeded, not removed since
    lastFail,       \* history: path of a failed port_associate, until the next call ends
    ldrop,          \* history: path the last batch dropped on a loss event
    watcher,        \* root->inner.watcher is set
    port_fd,        \* PortFSWatcher::port_fd
    errmsg,         \* *errmsg of initNew, the pieces asprintf joined
    iret,           \* what initNew returned
    pushes,         \* history: the w_pending_coll_add calls since coll was last emptied
    clock,          \* the time of day
    lclock          \* history: the time of day when consumeNotify was entered

vars == <<port_files, port_file_name, lock, assoc, portq, portevents, i, pe, lname,
          now, lerrno, lpc, lret, coll, cancelled, aborted, pc, aname, af,
          asuccess, acalled, apre, areg, lreg, lpushed, ldeleted, armed, lastFail, ldrop,
          watcher, port_fd, errmsg, iret, pushes, clock, lclock>>

\* the time of day, which no line of the watcher reads
tvars == <<clock, lclock>>

\* what initNew sets
ivars == <<watcher, port_fd, errmsg, iret>>

(***************************************************************************)
(* Bounds and value sets                                                   *)
(***************************************************************************)
WATCHMAN_BATCH_LIMIT == 2
MaxTokens == 4
MaxTime == 1
MaxPushes == 3

root_path == "/root"
Paths == {"/root", "/root/a", "/root/b"}
Tokens == 1..MaxTokens
Timestamps == 0..MaxTime
ArmThreads == {"e1", "e2"}
LOOP == "loop"
NoOwner == "none"
NoName == "nil"
NoToken == 0

FILE_RENAME_FROM == "FILE_RENAME_FROM"
UNMOUNTED == "UNMOUNTED"
MOUNTEDOVER == "MOUNTEDOVER"
FILE_DELETE == "FILE_DELETE"
FILE_MODIFIED == "FILE_MODIFIED"
FILE_ATTRIB == "FILE_ATTRIB"
FILE_RENAME_TO == "FILE_RENAME_TO"
FILE_ACCESS == "FILE_ACCESS"

\* the event words port_getn can report for a PORT_SOURCE_FILE association
EventChoices ==
    { {FILE_MODIFIED}, {FILE_ATTRIB}, {FILE_RENAME_TO}, {FILE_DELETE},
      {FILE_RENAME_FROM}, {UNMOUNTED}, {MOUNTEDOVER},
      {FILE_MODIFIED, FILE_DELETE} }

W_PENDING_RECURSIVE == "W_PENDING_RECURSIVE"
W_PENDING_VIA_NOTIFY == "W_PENDING_VIA_NOTIFY"

NoFd == -1
PortFd == 3
EMFILE == "EMFILE"
EAGAIN == "EAGAIN"
CreateErrors == {EMFILE, EAGAIN}

EINTR == "EINTR"
EOTHER == "EBADF"
NoErr == "0"

(***************************************************************************)
(* The hash table port_files                                               *)
(***************************************************************************)
RegNames(reg) == { e.name : e \in reg }
RegTokens(reg) == { e.f : e \in reg }
EntriesOf(reg, name) == { e \in reg : e.name = name }

\* w_ht_get(port_files, name): non-null iff an entry with that key exists
w_ht_get(name) == EntriesOf(port_files, name) # {}

\* w_ht_set(port_files, name, f): inserts when the key is absent
w_ht_set(reg, name, f) == reg \cup { [name |-> name, f |-> f] }

\* w_ht_del(port_files, name): removes the entry of that key; the table's
\* del_val callback portfs_del_port_file frees its watchman_port_file
w_ht_del(reg, name) == { e \in reg : e.name # name }

\* free_port_file for every token of the entries of name
FreeNames(names, name) ==
    [f \in Tokens |->
        IF f \in RegTokens(EntriesOf(port_files, name)) THEN NoName ELSE names[f]]

LiveTokens == { f \in Tokens : port_file_name[f] # NoName }

(***************************************************************************)
(* The pending collection                                                  *)
(***************************************************************************)
CollPaths(c) == { r.path : r \in c }
Max(a, b) == IF a >= b THEN a ELSE b

\* mutant of w_pending_coll_add: a later push overwrites the record
w_pending_coll_add_Overwrite(c, path, t, flags) ==
    { r \in c : r.path # path } \cup { [path |-> path, time |-> t, flags |-> flags] }

\* w_pending_coll_add(coll, path, now, flags)
w_pending_coll_add(c, path, t, flags) ==
    IF path \in CollPaths(c)
    THEN { IF r.path = path
           THEN [path |-> path, time |-> Max(r.time, t),
                 flags |-> r.flags \cup flags]
           ELSE r : r \in c }
    ELSE c \cup { [path |-> path, time |-> t, flags |-> flags] }

(***************************************************************************)
(* Initial state: the root exists, initNew has not run                     *)
(***************************************************************************)
Init ==
    /\ watcher = FALSE
    /\ port_fd = NoFd
    /\ errmsg = <<>>
    /\ iret = "none"
    /\ pushes = {}
    /\ clock = 0
    /\ lclock = 0
    /\ port_files = {}
    /\ port_file_name = [f \in Tokens |-> NoName]
    /\ lock = NoOwner
    /\ assoc = {}
    /\ portq = <<>>
    /\ portevents = <<>>
    /\ i = 1
    /\ pe = {}
    /\ lname = NoName
    /\ now = 0
    /\ lerrno = NoErr
    /\ lpc = "new"
    /\ lret = "none"
    /\ coll = {}
    /\ cancelled = FALSE
    /\ aborted = FALSE
    /\ pc = [t \in ArmThreads |-> "idle"]
    /\ aname = [t \in ArmThreads |-> NoName]
    /\ af = [t \in ArmThreads |-> NoToken]
    /\ asuccess = [t \in ArmThreads |-> FALSE]
    /\ acalled = [t \in ArmThreads |-> FALSE]
    /\ apre = [t \in ArmThreads |-> FALSE]
    /\ areg = {}
    /\ lreg = {}
    /\ lpushed = {}
    /\ ldeleted = {}
    /\ armed = {}
    /\ lastFail = NoName
    /\ ldrop = NoName

(***************************************************************************)
(* initNew                                                                 *)
(***************************************************************************)
\* strerror(errno)
strerror(e) ==
    CASE e = EMFILE -> "Too many open files"
      [] e = EAGAIN -> "Resource temporarily unavailable"
      [] OTHER -> "Unknown error"

\* lines 107-111: asprintf(errmsg, "watch(%s): port_create() error: %s",
\* root->root_path.c_str(), strerror(errno)): the pieces of the message
asprintf(root, err) == <<"watch(", root, "): port_create() error: ", err>>

\* mutant of PortCreateFailed: the return is missing, the watcher is installed
PortCreateFailed_Installs(e) ==
    /\ errmsg' = asprintf(root_path, strerror(e))
    /\ port_fd' = NoFd
    /\ watcher' = TRUE
    /\ iret' = "true"
    /\ lpc' = "top"

\* lines 105-114: port_create() returned -1 with errno e: format the message,
\* return false; the local watcher is destroyed, none is installed
PortCreateFailed(e) ==
    /\ errmsg' = asprintf(root_path, strerror(e))
    /\ port_fd' = NoFd
    /\ watcher' = FALSE
    /\ iret' = "false"
    /\ lpc' = "failed"

\* lines 93-119: initNew: a new watcher with an initialised lock and an empty
\* table; port_create; on success the watcher is moved into the root
initNew ==
    /\ lpc = "new"
    /\ UNCHANGED pushes
    /\ port_files' = {}
    /\ lock' = NoOwner
    /\ \/ /\ port_fd' = PortFd
          /\ watcher' = TRUE
          /\ iret' = "true"
          /\ lpc' = "top"
          /\ UNCHANGED errmsg
       \/ \E e \in CreateErrors : PortCreateFailed(e)
    /\ UNCHANGED <<port_file_name, assoc, portq, portevents, i, pe, lname, now,
                   lerrno, lret, coll, cancelled, aborted, pc, aname, af,
                   asuccess, acalled, apre, areg, lreg, lpushed, ldeleted,
                   armed, lastFail, ldrop>>
    /\ UNCHANGED tvars

(***************************************************************************)
(* The watcher lock                                                        *)
(***************************************************************************)
\* mutant of Acquire: the lock is not taken
Acquire_NoLock(th) == lock' = lock

\* pthread_mutex_lock(&lock) by thread th
Acquire(th) == lock = NoOwner /\ lock' = th

\* pthread_mutex_unlock(&lock)
Release == lock' = NoOwner

(***************************************************************************)
(* do_watch, called by the enumeration threads                             *)
(***************************************************************************)
\* the enumeration collaborator arms path p through startWatchDir or
\* startWatchFile; it does so only for a root that is not cancelled
armPath(t, p) ==
    /\ ~aborted /\ ~cancelled
    /\ watcher
    /\ UNCHANGED <<ivars, pushes>>
    /\ pc[t] = "idle"
    /\ pc' = [pc EXCEPT ![t] = "lock"]
    /\ aname' = [aname EXCEPT ![t] = p]
    /\ UNCHANGED <<port_files, port_file_name, lock, assoc, portq, portevents,
                   i, pe, lname, now, lerrno, lpc, lret, coll, cancelled, aborted, af,
                   asuccess, acalled, apre, areg, lreg, lpushed, ldeleted,
                   armed, lastFail, ldrop>>
    /\ UNCHANGED tvars

\* line 132: pthread_mutex_lock(&lock)
DoWatchLock(t) ==
    /\ ~aborted
    /\ UNCHANGED <<ivars, pushes>>
    /\ pc[t] = "lock"
    /\ Acquire(t)
    /\ pc' = [pc EXCEPT ![t] = "get"]
    /\ areg' = port_files
    /\ apre' = [apre EXCEPT ![t] = aname[t] \in armed]
    /\ UNCHANGED <<port_files, port_file_name, assoc, portq, portevents, i,
                   pe, lname, now, lerrno, lpc, lret, coll, cancelled, aborted, aname, af,
                   asuccess, acalled, lreg, lpushed, ldeleted, armed, lastFail, ldrop>>
    /\ UNCHANGED tvars

\* mutant of AlreadyWatching: the lookup result is ignored
AlreadyWatching_Never(name) == FALSE

\* line 133: if (w_ht_get(port_files, name))
AlreadyWatching(name) == w_ht_get(name)

\* lines 133-137: already watching it: success, goto out
DoWatchGet(t) ==
    /\ ~aborted
    /\ UNCHANGED <<ivars, pushes>>
    /\ pc[t] = "get"
    /\ IF AlreadyWatching(aname[t])
       THEN /\ asuccess' = [asuccess EXCEPT ![t] = TRUE]
            /\ pc' = [pc EXCEPT ![t] = "out"]
       ELSE /\ asuccess' = asuccess
            /\ pc' = [pc EXCEPT ![t] = "make"]
    /\ UNCHANGED <<port_files, port_file_name, lock, assoc, portq, portevents,
                   i, pe, lname, now, lerrno, lpc, lret, coll, cancelled, aborted, aname,
                   af, acalled, apre, areg, lreg, lpushed, ldeleted, armed, lastFail, ldrop>>
    /\ UNCHANGED tvars

\* line 61: calloc returns the address of an unused block.  Unused blocks are
\* interchangeable (the code only compares and dereferences them), so one
\* stands for all: the block numbered like the name when it is unused (a
\* block freed earlier for that name is reused at once), else the lowest one
Slot(name) == CASE name = "/root" -> 1 [] name = "/root/a" -> 2 [] OTHER -> 3
calloc(name) ==
    IF Slot(name) \notin LiveTokens THEN Slot(name)
    ELSE CHOOSE f \in Tokens \ LiveTokens : \A g \in Tokens \ LiveTokens : f <= g

\* lines 139-142: f = make_port_file(name, st), or null when calloc fails
DoWatchMake(t) ==
    /\ ~aborted
    /\ UNCHANGED <<ivars, pushes>>
    /\ pc[t] = "make"
    /\ \/ /\ Tokens \ LiveTokens # {}
          /\ port_file_name' = [port_file_name EXCEPT ![calloc(aname[t])] = aname[t]]
          /\ af' = [af EXCEPT ![t] = calloc(aname[t])]
          /\ pc' = [pc EXCEPT ![t] = "set"]
       \/ /\ UNCHANGED <<port_file_name, af>>
          /\ pc' = [pc EXCEPT ![t] = "out"]
    /\ UNCHANGED <<port_files, lock, assoc, portq, portevents, i, pe, lname, now, lerrno,
                   lpc, lret, coll, cancelled, aborted, aname, asuccess,
                   acalled, apre, areg, lreg, lpushed, ldeleted, armed, lastFail, ldrop>>
    /\ UNCHANGED tvars

\* lines 144-147: w_ht_set(port_files, name, f); on failure free_port_file(f)
DoWatchSet(t) ==
    /\ ~aborted
    /\ UNCHANGED <<ivars, pushes>>
    /\ pc[t] = "set"
    /\ \/ /\ aname[t] \notin RegNames(port_files)
          /\ port_files' = w_ht_set(port_files, aname[t], af[t])
          /\ pc' = [pc EXCEPT ![t] = "assoc"]
          /\ UNCHANGED port_file_name
       \/ /\ port_file_name' = [port_file_name EXCEPT ![af[t]] = NoName]
          /\ pc' = [pc EXCEPT ![t] = "out"]
          /\ UNCHANGED port_files
    /\ UNCHANGED <<lock, assoc, portq, portevents, i, pe, lname, now, lerrno, lpc, lret,
                   coll, cancelled, aborted, aname, af, asuccess, acalled,
                   apre, areg, lreg, lpushed, ldeleted, armed, lastFail, ldrop>>
    /\ UNCHANGED tvars

\* mutant of AssociateFailed: the test of port_associate is inverted, the
\* entry of an association that stands is rolled back
AssociateFailed_Inverted(t) ==
    /\ port_files' = w_ht_del(port_files, aname[t])
    /\ port_file_name' = FreeNames(port_file_name, aname[t])
    /\ armed' = armed \ {aname[t]}
    /\ lastFail' = aname[t]
    /\ assoc' = assoc \cup {af[t]}
    /\ UNCHANGED asuccess

\* mutant of AssociateFailed: the entry is not rolled back
AssociateFailed_NoRollback(t) ==
    /\ lastFail' = aname[t]
    /\ UNCHANGED <<port_files, port_file_name, armed, assoc, asuccess>>

\* lines 157-160: port_associate failed: w_ht_del(port_files, name), goto out
AssociateFailed(t) ==
    /\ port_files' = w_ht_del(port_files, aname[t])
    /\ port_file_name' = FreeNames(port_file_name, aname[t])
    /\ armed' = armed \ {aname[t]}
    /\ lastFail' = aname[t]
    /\ UNCHANGED <<assoc, asuccess>>

\* lines 150-163: port_associate(port_fd, PORT_SOURCE_FILE, &f->port_file,
\* WATCHMAN_PORT_EVENTS, f) succeeds or fails
DoWatchAssociate(t) ==
    /\ ~aborted
    /\ UNCHANGED <<ivars, pushes>>
    /\ pc[t] = "assoc"
    /\ acalled' = [acalled EXCEPT ![t] = TRUE]
    /\ pc' = [pc EXCEPT ![t] = "out"]
    /\ \/ /\ assoc' = assoc \cup {af[t]}
          /\ asuccess' = [asuccess EXCEPT ![t] = TRUE]
          /\ UNCHANGED <<port_files, port_file_name, armed, lastFail, ldrop>>
       \/ AssociateFailed(t)
    /\ UNCHANGED <<lock, portq, portevents, i, pe, lname, now, lerrno, lpc, lret, coll,
                   cancelled, aborted, aname, af, apre, areg, lreg, lpushed,
                   ldeleted, ldrop>>
    /\ UNCHANGED tvars

\* lines 165-167: out: pthread_mutex_unlock(&lock); return success
DoWatchOut(t) ==
    /\ ~aborted
    /\ UNCHANGED <<ivars, pushes>>
    /\ pc[t] = "out"
    /\ Release
    /\ pc' = [pc EXCEPT ![t] = "idle"]
    /\ armed' = IF asuccess[t] THEN armed \cup {aname[t]} ELSE armed
    /\ lastFail' = IF acalled[t] /\ ~asuccess[t] THEN lastFail ELSE NoName
    /\ aname' = [aname EXCEPT ![t] = NoName]
    /\ af' = [af EXCEPT ![t] = NoToken]
    /\ asuccess' = [asuccess EXCEPT ![t] = FALSE]
    /\ acalled' = [acalled EXCEPT ![t] = FALSE]
    /\ apre' = [apre EXCEPT ![t] = FALSE]
    /\ areg' = {}
    /\ UNCHANGED <<port_files, port_file_name, assoc, portq, portevents, i,
                   pe, lname, now, lerrno, lpc, lret, coll, cancelled, aborted, lreg,
                   lpushed, ldeleted, ldrop>>
    /\ UNCHANGED tvars

(***************************************************************************)
(* The notify thread: waitNotify and consumeNotify                         *)
(***************************************************************************)
\* the watch loop of the root: the records of the batch just drained go to
\* the shared collector; then, while the root is not cancelled, wait for
\* readiness and, when ready, drain the next batch into an empty collection.
\* errno of the last call is dead from here on
RunLoop ==
    /\ ~aborted
    /\ UNCHANGED ivars
    /\ lpc = "top"
    /\ lpc' = IF cancelled THEN "stopped" ELSE "poll"
    /\ IF cancelled
       THEN UNCHANGED <<lret, lerrno, coll, ldrop, pushes>>
       ELSE /\ lret' = "none"
            /\ lerrno' = NoErr
            /\ coll' = {}
            /\ pushes' = {}
            /\ ldrop' = NoName
    /\ UNCHANGED <<port_files, port_file_name, lock, assoc, portq, portevents,
                   i, pe, lname, now, cancelled, aborted, pc, aname, af,
                   asuccess, acalled, apre, areg, lreg, lpushed, ldeleted,
                   armed, lastFail>>
    /\ UNCHANGED tvars

\* lines 285-295: n = poll(&pfd, 1, timeoutms); return n == 1.  The port is
\* readable when an event waits in it; otherwise poll times out or fails.
\* When it returns true the loop calls consumeNotify
WaitNotify ==
    /\ ~aborted
    /\ UNCHANGED <<ivars, pushes>>
    /\ lpc = "poll"
    /\ \/ portq # <<>> /\ lpc' = "getn"
       \/ lpc' = "top"
    /\ UNCHANGED <<port_files, port_file_name, lock, assoc, portq, portevents,
                   i, pe, lname, now, lerrno, lret, coll, cancelled, aborted, pc,
                   aname, af, asuccess, acalled, apre, areg, lreg, lpushed,
                   ldeleted, armed, lastFail, ldrop>>
    /\ UNCHANGED tvars

\* w_log(W_LOG_FATAL, ...): logs and terminates the process
w_log_fatal == aborted' = TRUE /\ lpc' = "aborted"

\* mutant of IsInterrupted: EINTR is not recognised
IsInterrupted_Never(e) == FALSE

\* line 234: errno == EINTR
IsInterrupted(e) == e = EINTR

\* mutant of GetnError: every error is taken for an interruption
GetnError_AllTransient(e) ==
    /\ lerrno' = e
    /\ lret' = "false" /\ lpc' = "top" /\ UNCHANGED aborted
    /\ UNCHANGED <<assoc, portq, portevents, now>>

\* lines 233-239: port_getn failed with errno e
GetnError(e) ==
    /\ lerrno' = e
    /\ IF IsInterrupted(e)
       THEN lret' = "false" /\ lpc' = "top" /\ UNCHANGED aborted
       ELSE w_log_fatal /\ UNCHANGED lret
    /\ UNCHANGED <<assoc, portq, portevents, now>>

Min(a, b) == IF a <= b THEN a ELSE b

\* mutant of GetnEvents: the port is emptied whatever the array holds
GetnEvents_Overrun(n) ==
    /\ lerrno' = NoErr
    /\ portevents' = IF n = 0 THEN <<>> ELSE portq
    /\ portq' = IF n = 0 THEN portq ELSE <<>>
    /\ assoc' = IF n = 0 THEN assoc ELSE assoc \ { portq[j] : j \in 1..Len(portq) }
    /\ IF n = 0 THEN lret' = "false" /\ lpc' = "top" /\ now' = now
                ELSE lret' = lret /\ lpc' = "lock" /\ now' \in Timestamps
    /\ UNCHANGED aborted

\* lines 227-233: port_getn(port_fd, portevents, WATCHMAN_BATCH_LIMIT, &n, 0)
\* returned 0 with n events: the first n waiting events leave the port, and
\* their associations are dissolved.  now is never assigned, so it holds
\* whatever the stack held
GetnEvents(n) ==
    /\ lerrno' = NoErr
    /\ portevents' = SubSeq(portq, 1, n)
    /\ portq' = SubSeq(portq, n + 1, Len(portq))
    /\ assoc' = assoc \ { portq[j] : j \in 1..n }
    /\ IF n = 0 THEN lret' = "false" /\ lpc' = "top" /\ now' = now
                ELSE lret' = lret /\ lpc' = "lock" /\ now' \in Timestamps
    /\ UNCHANGED aborted

\* lines 225-245: the retrieval and the two early returns
ConsumeGetn ==
    /\ ~aborted
    /\ UNCHANGED <<ivars, pushes>>
    /\ lpc = "getn"
    /\ \/ \E e \in {EINTR, EOTHER} : GetnError(e)
       \/ GetnEvents(Min(Len(portq), WATCHMAN_BATCH_LIMIT))
       \/ GetnEvents(0)
    /\ UNCHANGED <<port_files, port_file_name, lock, i, pe, lname, coll, cancelled,
                   pc, aname, af, asuccess, acalled, apre, areg, lreg, lpushed,
                   ldeleted, armed, lastFail, ldrop>>
    /\ lclock' = clock /\ UNCHANGED clock

\* line 247: pthread_mutex_lock(&lock); line 249: i = 0
ConsumeLock ==
    /\ ~aborted
    /\ UNCHANGED <<ivars, pushes>>
    /\ lpc = "lock"
    /\ Acquire(LOOP)
    /\ lpc' = "proc"
    /\ i' = 1
    /\ lreg' = port_files
    /\ UNCHANGED <<port_files, port_file_name, assoc, portq, portevents, pe, lname,
                   now, lerrno, lret, coll, cancelled, aborted, pc, aname, af,
                   asuccess, acalled, apre, areg, lpushed, ldeleted, armed, lastFail, ldrop>>
    /\ UNCHANGED tvars

\* f->name for f = portevents[i].portev_user: the name stored in the record,
\* or, when the record was freed, whatever the freed memory holds
NamesOf(f) == IF port_file_name[f] # NoName THEN {port_file_name[f]} ELSE Paths

RootLossMask == {FILE_RENAME_FROM, UNMOUNTED, MOUNTEDOVER, FILE_DELETE}

\* mutant of IsRootLoss: FILE_DELETE is missing from the mask
IsRootLoss_NoDelete(ev, name) ==
    (ev \cap {FILE_RENAME_FROM, UNMOUNTED, MOUNTEDOVER} # {}) /\ name = root_path

\* mutant of IsRootLoss: the comparison with the root path is missing
IsRootLoss_AnyPath(ev, name) == ev \cap RootLossMask # {}

\* mutant of IsRootLoss: the test of the event word is missing
IsRootLoss_AnyEvent(ev, name) == name = root_path

\* lines 260-261: (pe & (FILE_RENAME_FROM|UNMOUNTED|MOUNTEDOVER|FILE_DELETE))
\* && w_string_equal(f->name, root->root_path)
IsRootLoss(ev, name) == (ev \cap RootLossMask # {}) /\ name = root_path

\* w_root_cancel(root)
w_root_cancel == cancelled' = TRUE

\* mutant of RootLost: the return leaves the lock held
RootLost_KeepsLock ==
    /\ w_root_cancel
    /\ lret' = "false"
    /\ lpc' = "top"
    /\ UNCHANGED <<port_files, port_file_name, coll, i, lpushed, ldeleted,
                   armed, lastFail, ldrop, pushes, lock>>

\* mutant of RootLost: the record of the root is pushed before the test
RootLost_PushesRoot ==
    /\ w_root_cancel
    /\ Release
    /\ lret' = "false"
    /\ lpc' = "top"
    /\ coll' = w_pending_coll_add(coll, root_path, now,
                                  {W_PENDING_RECURSIVE, W_PENDING_VIA_NOTIFY})
    /\ pushes' = pushes \cup {[path |-> root_path, time |-> now,
                               flags |-> {W_PENDING_RECURSIVE, W_PENDING_VIA_NOTIFY}]}
    /\ UNCHANGED <<port_files, port_file_name, i, lpushed, ldeleted,
                   armed, lastFail, ldrop>>

\* lines 262-271: cancel the root, unlock, return false
RootLost ==
    /\ w_root_cancel
    /\ Release
    /\ lret' = "false"
    /\ lpc' = "top"
    /\ UNCHANGED <<port_files, port_file_name, coll, i, lpushed, ldeleted,
                   armed, lastFail, ldrop, pushes>>

\* mutant of PushAndForget: the record is pushed without W_PENDING_RECURSIVE
PushAndForget_NotRecursive(name, ev) ==
    /\ coll' = w_pending_coll_add(coll, name, now, {W_PENDING_VIA_NOTIFY})
    /\ pushes' = pushes \cup {[path |-> name, time |-> now,
                               flags |-> {W_PENDING_VIA_NOTIFY}]}
    /\ port_files' = w_ht_del(port_files, name)
    /\ port_file_name' = FreeNames(port_file_name, name)
    /\ i' = i + 1
    /\ lpushed' = lpushed \cup {name}
    /\ ldeleted' = ldeleted \cup {name}
    /\ armed' = armed \ {name}
    /\ ldrop' = IF ev \cap RootLossMask # {} THEN name ELSE ldrop
    /\ UNCHANGED <<lock, lret, lpc, cancelled, lastFail>>

\* mutant of PushAndForget: the entry is deleted without a record
PushAndForget_NoPush(name, ev) ==
    /\ port_files' = w_ht_del(port_files, name)
    /\ port_file_name' = FreeNames(port_file_name, name)
    /\ i' = i + 1
    /\ ldeleted' = ldeleted \cup {name}
    /\ armed' = armed \ {name}
    /\ ldrop' = IF ev \cap RootLossMask # {} THEN name ELSE ldrop
    /\ UNCHANGED <<coll, pushes, lpushed>>
    /\ UNCHANGED <<lock, lret, lpc, cancelled, lastFail>>

\* mutant of PushAndForget: the registry entry is not deleted
PushAndForget_NoForget(name, ev) ==
    /\ coll' = w_pending_coll_add(coll, name, now,
                                  {W_PENDING_RECURSIVE, W_PENDING_VIA_NOTIFY})
    /\ pushes' = pushes \cup {[path |-> name, time |-> now,
                               flags |-> {W_PENDING_RECURSIVE, W_PENDING_VIA_NOTIFY}]}
    /\ i' = i + 1
    /\ lpushed' = lpushed \cup {name}
    /\ UNCHANGED <<port_files, port_file_name, ldeleted, armed, ldrop>>
    /\ UNCHANGED <<lock, lret, lpc, cancelled, lastFail>>

\* lines 273-278: w_pending_coll_add(coll, f->name, now, W_PENDING_RECURSIVE |
\* W_PENDING_VIA_NOTIFY); w_ht_del(port_files, f->name)
PushAndForget(name, ev) ==
    /\ coll' = w_pending_coll_add(coll, name, now,
                                  {W_PENDING_RECURSIVE, W_PENDING_VIA_NOTIFY})
    /\ pushes' = pushes \cup {[path |-> name, time |-> now,
                               flags |-> {W_PENDING_RECURSIVE, W_PENDING_VIA_NOTIFY}]}
    /\ port_files' = w_ht_del(port_files, name)
    /\ port_file_name' = FreeNames(port_file_name, name)
    /\ i' = i + 1
    /\ lpushed' = lpushed \cup {name}
    /\ ldeleted' = ldeleted \cup {name}
    /\ armed' = armed \ {name}
    /\ ldrop' = IF ev \cap RootLossMask # {} THEN name ELSE ldrop
    /\ UNCHANGED <<lock, lret, lpc, cancelled, lastFail>>

\* lines 249-279: one iteration of the loop over the retrieved events
ConsumeEvent ==
    /\ ~aborted
    /\ UNCHANGED ivars
    /\ lpc = "proc"
    /\ i <= Len(portevents)
    /\ \E ev \in EventChoices, name \in NamesOf(portevents[i]) :
          /\ pe' = ev
          /\ lname' = name
          /\ IF IsRootLoss(ev, name) THEN RootLost ELSE PushAndForget(name, ev)
    /\ UNCHANGED <<assoc, portq, portevents, now, lerrno, aborted, pc, aname,
                   af, asuccess, acalled, apre, areg, lreg>>
    /\ UNCHANGED tvars

\* lines 249, 280-282: i == n: pthread_mutex_unlock(&lock); return true.
\* The locals die with the call, and what portevents holds is overwritten by
\* the next port_getn before it is read again
ConsumeDone ==
    /\ ~aborted
    /\ UNCHANGED <<ivars, pushes>>
    /\ lpc = "proc"
    /\ i > Len(portevents)
    /\ Release
    /\ lret' = "true"
    /\ lpc' = "top"
    /\ portevents' = <<>>
    /\ i' = 1
    /\ pe' = {}
    /\ lname' = NoName
    /\ now' = 0
    /\ lreg' = {}
    /\ lpushed' = {}
    /\ ldeleted' = {}
    /\ UNCHANGED <<port_files, port_file_name, assoc, portq, lerrno, coll,
                   cancelled, aborted, pc, aname, af, asuccess, acalled, apre,
                   areg, armed, lastFail, ldrop>>
    /\ UNCHANGED tvars

(***************************************************************************)
(* The environment                                                         *)
(***************************************************************************)
\* a change of the file behind association f: the port queues one event for
\* it; an association delivers one event
FsEvent(f) ==
    /\ ~aborted
    /\ UNCHANGED <<ivars, pushes>>
    /\ f \in assoc
    /\ f \notin { portq[j] : j \in 1..Len(portq) }
    /\ portq' = Append(portq, f)
    /\ UNCHANGED <<port_files, port_file_name, lock, assoc, portevents, i, pe, lname,
                   now, lerrno, lpc, lret, coll, cancelled, aborted, pc, aname,
                   af, asuccess, acalled, apre, areg, lreg, lpushed, ldeleted,
                   armed, lastFail, ldrop>>
    /\ UNCHANGED tvars

Next ==
    \/ initNew
    \/ \E t \in ArmThreads, p \in Paths : armPath(t, p)
    \/ \E t \in ArmThreads : DoWatchLock(t)
    \/ \E t \in ArmThreads : DoWatchGet(t)
    \/ \E t \in ArmThreads : DoWatchMake(t)
    \/ \E t \in ArmThreads : DoWatchSet(t)
    \/ \E t \in ArmThreads : DoWatchAssociate(t)
    \/ \E t \in ArmThreads : DoWatchOut(t)
    \/ RunLoop
    \/ WaitNotify
    \/ ConsumeGetn
    \/ ConsumeLock
    \/ ConsumeEvent
    \/ ConsumeDone
    \/ \E f \in Tokens : FsEvent(f)

Spec == Init /\ [][Next]_vars

\* the same program watching the root and one path under it
LockPaths == {root_path, "/root/a"}

LockNext ==
    \/ initNew
    \/ \E t \in ArmThreads, p \in LockPaths : armPath(t, p)
    \/ \E t \in ArmThreads : DoWatchLock(t)
    \/ \E t \in ArmThreads : DoWatchGet(t)
    \/ \E t \in ArmThreads : DoWatchMake(t)
    \/ \E t \in ArmThreads : DoWatchSet(t)
    \/ \E t \in ArmThreads : DoWatchAssociate(t)
    \/ \E t \in ArmThreads : DoWatchOut(t)
    \/ RunLoop
    \/ WaitNotify
    \/ ConsumeGetn
    \/ ConsumeLock
    \/ ConsumeEvent
    \/ ConsumeDone
    \/ \E f \in Tokens : FsEvent(f)

\* scheduling: a thread that can step does step, and a thread waiting for
\* the mutex gets it if it is free again and again
FairSpec ==
    /\ Init /\ [][LockNext]_vars
    /\ \A t \in ArmThreads :
          /\ SF_vars(DoWatchLock(t))
          /\ WF_vars(DoWatchGet(t) \/ DoWatchMake(t) \/ DoWatchSet(t)
                        \/ DoWatchAssociate(t) \/ DoWatchOut(t))
    /\ SF_vars(ConsumeLock)
    /\ WF_vars(ConsumeGetn \/ ConsumeEvent \/ ConsumeDone)

(***************************************************************************)
(* The same program with the time of day passing                           *)
(***************************************************************************)
Tick ==
    /\ clock < MaxTime
    /\ clock' = clock + 1
    /\ UNCHANGED <<port_files, port_file_name, lock, assoc, portq, portevents,
                   i, pe, lname, now, lerrno, lpc, lret, coll, cancelled, aborted,
                   pc, aname, af, asuccess, acalled, apre, areg, lreg, lpushed,
                   ldeleted, armed, lastFail, ldrop, ivars, pushes, lclock>>

ClockNext ==
    \/ initNew
    \/ \E t \in ArmThreads, p \in LockPaths : armPath(t, p)
    \/ \E t \in ArmThreads : DoWatchLock(t)
    \/ \E t \in ArmThreads : DoWatchGet(t)
    \/ \E t \in ArmThreads : DoWatchMake(t)
    \/ \E t \in ArmThreads : DoWatchSet(t)
    \/ \E t \in ArmThreads : DoWatchAssociate(t)
    \/ \E t \in ArmThreads : DoWatchOut(t)
    \/ RunLoop
    \/ WaitNotify
    \/ ConsumeGetn
    \/ ConsumeLock
    \/ ConsumeEvent
    \/ ConsumeDone
    \/ \E f \in Tokens : FsEvent(f)
    \/ Tick

ClockSpec == Init /\ [][ClockNext]_vars

(***************************************************************************)
(* The pending collection on its own: any producer pushes any path, with   *)
(* any timestamp and flags, between two drains                             *)
(***************************************************************************)
PushPaths == Paths \cup {"/other", "/other/a"}
PushFlags == SUBSET {W_PENDING_RECURSIVE, W_PENDING_VIA_NOTIFY}

\* one w_pending_coll_add call
CollPush(path, t, flags) ==
    /\ Cardinality(pushes) < MaxPushes
    /\ coll' = w_pending_coll_add(coll, path, t, flags)
    /\ pushes' = pushes \cup {[path |-> path, time |-> t, flags |-> flags]}
    /\ UNCHANGED <<port_files, port_file_name, lock, assoc, portq, portevents,
                   i, pe, lname, now, lerrno, lpc, lret, cancelled, aborted, pc,
                   aname, af, asuccess, acalled, apre, areg, lreg, lpushed,
                   ldeleted, armed, lastFail, ldrop, ivars>>
    /\ UNCHANGED tvars

\* drainAll: the consumer takes every record, the collection is empty after
drainAll ==
    /\ coll # {}
    /\ coll' = {}
    /\ pushes' = {}
    /\ UNCHANGED <<port_files, port_file_name, lock, assoc, portq, portevents,
                   i, pe, lname, now, lerrno, lpc, lret, cancelled, aborted, pc,
                   aname, af, asuccess, acalled, apre, areg, lreg, lpushed,
                   ldeleted, armed, lastFail, ldrop, ivars>>
    /\ UNCHANGED tvars

CollNext ==
    \/ \E path \in PushPaths, t \in Timestamps, flags \in PushFlags :
          CollPush(path, t, flags)
    \/ drainAll

CollSpec == Init /\ [][CollNext]_vars

(***************************************************************************)
(* Which thread takes a step, and which steps are native calls             *)
(***************************************************************************)
ArmStepped(t) == pc'[t] # pc[t]
LoopStepped == lpc' # lpc \/ i' # i
Batch == { portevents[j] : j \in 1..Len(portevents) }
Associating(t) == ArmStepped(t) /\ pc[t] = "assoc"
Polling == LoopStepped /\ lpc = "poll"
Retrieving == LoopStepped /\ lpc = "getn"
Processing == LoopStepped /\ lpc = "proc" /\ i <= Len(portevents)
NativeCall == Polling \/ Retrieving \/ \E t \in ArmThreads : Associating(t)

(***************************************************************************)
(* C1                                                                      *)
(***************************************************************************)
\* C1: arming is idempotent.  A path whose last do_watch succeeded and whose
\* entry was not removed since has exactly one registry entry; a do_watch
\* call that finds it so returns success without calling port_associate and
\* leaves the registry as it was; and no path ever has two registry entries.
C1_ArmIdempotent ==
    /\ \A p \in Paths : Cardinality(EntriesOf(port_files, p)) <= 1
    /\ \A p \in armed : Cardinality(EntriesOf(port_files, p)) = 1
    /\ \A t \in ArmThreads :
          (pc[t] = "out" /\ apre[t]) =>
              /\ asuccess[t]
              /\ ~acalled[t]
              /\ port_files = areg
              /\ Cardinality(EntriesOf(port_files, aname[t])) = 1

\* a second do_watch of an armed path is about to return, while the other
\* enumeration thread waits for the lock with the same path
C1_Witness ==
    \E t, u \in ArmThreads :
        /\ t # u
        /\ pc[t] = "out" /\ apre[t] /\ asuccess[t]
        /\ pc[u] = "lock" /\ aname[u] = aname[t]

(***************************************************************************)
(* C2                                                                      *)
(***************************************************************************)
RecordsOf(c, p) == { r \in c : r.path = p }
Unprocessed == { portevents[j] : j \in (i + 1)..Len(portevents) }

\* C2: when consumeNotify reads an event of the root path whose flags include
\* FILE_DELETE, FILE_RENAME_FROM, UNMOUNTED or MOUNTEDOVER, that step cancels
\* the root and returns false without pushing or deleting anything; and from
\* then on the events behind it in the batch stay unprocessed: the loop never
\* processes again, their registry entries stay, and nothing was pushed for
\* them.
C2_RootLossCancels ==
    /\ [][ (Processing /\ pe' \cap RootLossMask # {}
            /\ port_file_name[portevents[i]] = root_path)
           => (/\ cancelled' /\ lret' = "false" /\ lpc' = "top"
               /\ lock' = NoOwner
               /\ coll' = coll /\ port_files' = port_files /\ i' = i) ]_vars
    /\ [](cancelled =>
            /\ lpc \in {"top", "stopped"}
            /\ lname = root_path /\ pe \cap RootLossMask # {}
            /\ Unprocessed \subseteq RegTokens(port_files)
            /\ \A f \in Unprocessed : port_file_name[f] \notin lpushed
            /\ CollPaths(coll) = lpushed)

\* the root was lost on the first event of a batch of two
C2_Witness ==
    /\ cancelled /\ lret = "false"
    /\ i = 1 /\ Len(portevents) = 2
    /\ portevents[2] \in RegTokens(port_files)

(***************************************************************************)
(* C3                                                                      *)
(***************************************************************************)
\* C3: once the root is cancelled it stays cancelled, and no native call is
\* made for it afterwards: no port_associate, no poll, no port_getn.
C3_NoNativeCallAfterCancel ==
    [][ cancelled => (cancelled' /\ ~NativeCall) ]_vars

(***************************************************************************)
(* C4                                                                      *)
(***************************************************************************)
\* C4: an event with a loss flag for a path other than the root does not
\* cancel the root: its record is pushed and its registry entry removed; and
\* a do_watch call that takes the lock for a path that is not armed and
\* succeeds has created a token, inserted it and associated it (the
\* association stands, or its event was retrieved since and waits for the
\* lock).
C4_OtherPathLoss ==
    /\ [][ (Processing /\ pe' \cap RootLossMask # {}
            /\ port_file_name[portevents[i]] \in Paths \ {root_path})
           => LET name == port_file_name[portevents[i]] IN
              /\ cancelled' = cancelled
              /\ lpc' = "proc" /\ i' = i + 1
              /\ RecordsOf(coll', name) # {}
              /\ name \notin RegNames(port_files')
              /\ name \notin armed' ]_vars
    /\ [](\A t \in ArmThreads :
            (pc[t] = "out" /\ ~apre[t] /\ asuccess[t]) =>
                /\ acalled[t]
                /\ af[t] \in Tokens
                /\ EntriesOf(port_files, aname[t])
                      = { [name |-> aname[t], f |-> af[t]] }
                /\ areg = port_files \ EntriesOf(port_files, aname[t])
                /\ (af[t] \in assoc \/ (lpc = "lock" /\ af[t] \in Batch)))

\* a path dropped on a loss event by the last batch has been armed afresh
C4_Witness ==
    /\ ~cancelled /\ lret = "true"
    /\ ldrop \in Paths \ {root_path}
    /\ \E t \in ArmThreads :
          /\ pc[t] = "out" /\ aname[t] = ldrop
          /\ ~apre[t] /\ asuccess[t] /\ acalled[t]

(***************************************************************************)
(* C5                                                                      *)
(***************************************************************************)
\* the paths of the batch, by the registry as it was when the lock was taken
Delivered == { e.name : e \in { x \in lreg : x.f \in Batch } }

\* C5: when consumeNotify returns true, every delivered path has exactly one
\* record, recursive and via-notify, and no registry entry; every other entry
\* the registry held when the lock was taken is still there unchanged, with
\* no record; and the registry holds nothing else.
C5_DrainFrame ==
    [][ (LoopStepped /\ lpc = "proc" /\ lret' = "true")
        => /\ Delivered # {}
           /\ \A p \in Delivered :
                 /\ Cardinality(RecordsOf(coll', p)) = 1
                 /\ \A r \in RecordsOf(coll', p) :
                       r.flags = {W_PENDING_RECURSIVE, W_PENDING_VIA_NOTIFY}
                 /\ p \notin RegNames(port_files')
           /\ \A e \in lreg :
                 e.name \notin Delivered =>
                     e \in port_files' /\ RecordsOf(coll', e.name) = {}
           /\ port_files' = { e \in lreg : e.name \notin Delivered }
           /\ CollPaths(coll') = Delivered ]_vars

\* /root/a and /root/b armed, the batch was the event of /root/a alone
C5_Witness ==
    /\ lpc = "proc" /\ i > Len(portevents)
    /\ Delivered = {"/root/a"}
    /\ CollPaths(coll) = {"/root/a"}
    /\ RegNames(lreg) = {"/root/a", "/root/b"}
    /\ RegNames(port_files) = {"/root/b"}

(***************************************************************************)
(* C6                                                                      *)
(***************************************************************************)
\* C6: while the root is active, every registry entry's token is associated
\* with the port, unless its event was retrieved by the consumeNotify call
\* still running, or the do_watch call that inserted it has not yet called
\* port_associate.
C6_EntryImpliesAssociation ==
    (~cancelled /\ ~aborted) =>
        \A e \in port_files :
            \/ e.f \in assoc
            \/ lpc \in {"lock", "proc"} /\ e.f \in Batch
            \/ \E t \in ArmThreads : pc[t] = "assoc" /\ aname[t] = e.name

\* after a batch that delivered /root/a, the root and /root/b are still
\* registered and associated, and no call is running
C6_Witness ==
    /\ ~cancelled /\ lret = "true" /\ lock = NoOwner
    /\ \A t \in ArmThreads : pc[t] = "idle"
    /\ RegNames(port_files) = {"/root", "/root/b"}
    /\ RegTokens(port_files) \subseteq assoc

(***************************************************************************)
(* C7                                                                      *)
(***************************************************************************)
\* C7: a failing port_associate removes the entry the call inserted, so the
\* registry is as it was when the call took the lock, frees the token and
\* changes nothing else of the root; the call then returns failure and
\* releases the lock; and the do_watch call that follows for another path
\* behaves as any other: a no-op success for an armed path, a fresh entry
\* with its association for a path that was not armed.
C7_AssociateFailureRollsBack ==
    /\ [][ \A t \in ArmThreads :
             (Associating(t) /\ ~asuccess'[t]) =>
                 /\ port_files' = areg
                 /\ aname[t] \notin RegNames(port_files')
                 /\ port_file_name'[af[t]] = NoName
                 /\ assoc' = assoc
                 /\ cancelled' = cancelled /\ aborted' = aborted
                 /\ pc'[t] = "out" ]_vars
    /\ [][ \A t \in ArmThreads :
             (ArmStepped(t) /\ pc[t] = "out") =>
                 /\ lock' = NoOwner
                 /\ pc'[t] = "idle"
                 /\ port_files' = port_files ]_vars
    /\ [](\A t \in ArmThreads :
            (pc[t] = "out" /\ acalled[t] /\ ~asuccess[t]) =>
                port_files = areg /\ lastFail = aname[t] /\ lock = t)
    /\ [](\A t \in ArmThreads :
            (lastFail # NoName /\ pc[t] = "out" /\ aname[t] # lastFail) =>
                /\ apre[t] => asuccess[t] /\ ~acalled[t]
                /\ (~apre[t] /\ asuccess[t]) =>
                      /\ acalled[t]
                      /\ [name |-> aname[t], f |-> af[t]] \in port_files)

\* right after a failed association of one path a sibling was armed
C7_Witness ==
    /\ ~cancelled /\ ~aborted
    /\ lastFail \in Paths /\ lastFail \notin RegNames(port_files)
    /\ \E t \in ArmThreads :
          /\ pc[t] = "out" /\ aname[t] # lastFail
          /\ asuccess[t] /\ acalled[t] /\ af[t] \in assoc

(***************************************************************************)
(* C8                                                                      *)
(***************************************************************************)
\* C8: when port_getn fails with EINTR, consumeNotify returns false and
\* changes neither the root's state, the registry, the collection nor the
\* port; the loop is then back at its top, where it can go round again.
C8_InterruptedRetrieval ==
    /\ [][ (Retrieving /\ lerrno' = EINTR) =>
              /\ lret' = "false" /\ lpc' = "top"
              /\ cancelled' = cancelled /\ aborted' = aborted
              /\ port_files' = port_files /\ coll' = coll
              /\ portq' = portq /\ assoc' = assoc /\ lock' = lock ]_vars
    /\ [](lerrno = EINTR =>
            /\ lpc = "top" /\ lret = "false"
            /\ ~cancelled /\ ~aborted
            /\ ENABLED RunLoop)

\* an interrupted retrieval with paths armed and an event still waiting
C8_Witness ==
    /\ lerrno = EINTR /\ lret = "false" /\ lpc = "top"
    /\ port_files # {} /\ portq # <<>>

(***************************************************************************)
(* C9                                                                      *)
(***************************************************************************)
\* the root is lost: cancelled, or its process terminated by the fatal log
Lost == cancelled \/ aborted

LockedRegistry ==
    /\ port_files' # port_files =>
          /\ lock # NoOwner
          /\ IF lock = LOOP THEN LoopStepped ELSE ArmStepped(lock)
    /\ \A t \in ArmThreads :
          (ArmStepped(t) /\ pc[t] \in {"get", "make", "set", "assoc", "out"})
              => lock = t
    /\ (LoopStepped /\ lpc = "proc") => lock = LOOP
    /\ (Polling \/ Retrieving) => lock # LOOP

\* C10 as amended: the lock is held during every registry read, insert and
\* removal and not during poll or port_getn, and do_watch holds it during
\* port_associate.
C10_LockDiscipline ==
    [][ LockedRegistry /\ \A t \in ArmThreads : Associating(t) => lock = t ]_vars

\* C10 as stated: the lock is held during every registry read, insert and
\* removal, and not during poll, port_getn or port_associate.
C10_LockNeverAcrossNativeCall ==
    [][ LockedRegistry /\ \A t \in ArmThreads : Associating(t) => lock # t ]_vars

\* an enumeration thread is about to call port_associate with the lock held,
\* and the notify thread waits for the lock with a retrieved batch
C10_Witness ==
    /\ lpc = "lock" /\ portevents # <<>>
    /\ \E t \in ArmThreads : pc[t] = "assoc" /\ lock = t

(***************************************************************************)
(* C11                                                                     *)
(***************************************************************************)
\* C11: an event of the root path with none of FILE_DELETE, FILE_RENAME_FROM,
\* UNMOUNTED, MOUNTEDOVER leaves the root as it is and is handled like an
\* event of any other path: its record is pushed and its registry entry
\* removed; and the only step that cancels the root is consumeNotify reading
\* an event of the root path with one of those flags.
C11_OnlyRootLossCancels ==
    /\ [][ (Processing /\ pe' \cap RootLossMask = {}
            /\ port_file_name[portevents[i]] = root_path)
           => (/\ cancelled' = cancelled
               /\ lpc' = "proc" /\ i' = i + 1 /\ lock' = LOOP
               /\ \E r \in RecordsOf(coll', root_path) :
                     r.flags = {W_PENDING_RECURSIVE, W_PENDING_VIA_NOTIFY}
               /\ root_path \notin RegNames(port_files')
               /\ port_files' = w_ht_del(port_files, root_path)) ]_vars
    /\ [][ (~cancelled /\ cancelled')
           => (/\ Processing
               /\ lname' = root_path
               /\ port_file_name[portevents[i]] = root_path
               /\ pe' \cap RootLossMask # {}) ]_vars

\* the root path's event carried FILE_MODIFIED: its record was pushed, its
\* entry removed, and the root is still active with the batch going on
C11_Witness ==
    /\ ~cancelled /\ lpc = "proc"
    /\ lname = root_path /\ pe = {FILE_MODIFIED}
    /\ RecordsOf(coll, root_path) # {}
    /\ root_path \notin RegNames(port_files)
    /\ i = 2 /\ Len(portevents) = 2

(***************************************************************************)
(* C12                                                                     *)
(***************************************************************************)
\* C12: when port_create fails, initNew returns false with a message that is
\* not empty and ends in the text of the OS error, no watcher is installed,
\* and nothing of the watch ever runs: no do_watch, no poll, no
\* consumeNotify.  When it succeeds, the root has its watcher, with a port
\* handle and an empty registry.
C12_InitNew ==
    /\ [](iret = "false" =>
            /\ errmsg # <<>>
            /\ \E e \in CreateErrors :
                  /\ errmsg = asprintf(root_path, strerror(e))
                  /\ errmsg[Len(errmsg)] = strerror(e)
            /\ ~watcher /\ port_fd = NoFd
            /\ lpc = "failed"
            /\ \A t \in ArmThreads : pc[t] = "idle"
            /\ port_files = {} /\ assoc = {} /\ coll = {} /\ lret = "none")
    /\ [][ iret = "false" => UNCHANGED vars ]_vars
    /\ [][ (iret = "none" /\ iret' = "true") =>
              /\ watcher' /\ port_fd' = PortFd
              /\ port_files' = {} /\ lock' = NoOwner /\ assoc' = {} ]_vars
    /\ [](iret = "true" => watcher /\ port_fd = PortFd /\ errmsg = <<>>)
    /\ [](iret = "none" => ~watcher /\ lpc = "new" /\ port_files = {})

\* port_create failed with EMFILE
C12_Witness ==
    /\ iret = "false" /\ ~watcher
    /\ errmsg[4] = "Too many open files"

(***************************************************************************)
(* C13                                                                     *)
(***************************************************************************)
\* C13: one consumeNotify call retrieves at most WATCHMAN_BATCH_LIMIT events,
\* the first ones waiting; the others stay in the port in their order; only
\* port_getn takes events out of the port; and the call processes no more
\* events than it retrieved.
C13_BatchCeiling ==
    /\ [][ Retrieving =>
              /\ Len(portevents') <= WATCHMAN_BATCH_LIMIT
              /\ (lerrno' = NoErr => portevents' \o portq' = portq)
              /\ (lerrno' # NoErr => portq' = portq) ]_vars
    /\ [][ portq' # portq =>
              \/ Retrieving
              \/ \E f \in Tokens : portq' = Append(portq, f) ]_vars
    /\ [](/\ Len(portevents) <= WATCHMAN_BATCH_LIMIT
          /\ Cardinality(lpushed) <= WATCHMAN_BATCH_LIMIT
          /\ i <= Len(portevents) + 1)

\* three events waited; the call retrieved as many as the array holds and
\* the third is still in the port
C13_Witness ==
    /\ lpc = "lock"
    /\ Len(portevents) = WATCHMAN_BATCH_LIMIT
    /\ Len(portq) = 1

(***************************************************************************)
(* C14                                                                     *)
(***************************************************************************)
PushesOf(p) == { x \in pushes : x.path = p }

\* C14: whatever was pushed since the last drain, the collection holds at
\* most one record for a path, and one exactly when the path was pushed; its
\* timestamp is the greatest pushed for the path, and it is recursive exactly
\* when one of the pushes was; a drain leaves the collection empty.
C14_CollectorMerge ==
    /\ [](\A p \in PushPaths :
            /\ Cardinality(RecordsOf(coll, p)) <= 1
            /\ (RecordsOf(coll, p) = {}) = (PushesOf(p) = {})
            /\ \A r \in RecordsOf(coll, p) :
                  /\ \A x \in PushesOf(p) : x.time <= r.time
                  /\ \E x \in PushesOf(p) : x.time = r.time
                  /\ (W_PENDING_RECURSIVE \in r.flags)
                        = (\E x \in PushesOf(p) : W_PENDING_RECURSIVE \in x.flags))
    /\ [][ pushes' = {} => coll' = {} ]_vars

\* /root/a was pushed recursive at time 1 and then plain at time 0, and a
\* path of another root was pushed too
C14_Witness ==
    /\ [path |-> "/root/a", time |-> 1, flags |-> {W_PENDING_RECURSIVE}] \in pushes
    /\ [path |-> "/root/a", time |-> 0, flags |-> {}] \in pushes
    /\ PushesOf("/other") # {}
    /\ Cardinality(coll) = 2

(***************************************************************************)
(* C15                                                                     *)
(***************************************************************************)
\* consumeNotify returns from its loop: with true after the last event, or
\* with false on the loss of the root
Returning == LoopStepped /\ lpc = "proc" /\ lpc' = "top"

\* the paths of the events the loop has gone through
Processed == { e.name : e \in { x \in lreg : x.f \in Batch \ (Unprocessed \cup {portevents[i]}) } }

\* C15 as amended: consumeNotify removes the registry entry of every event it
\* processes.  When it returns true no path of the batch has an entry; when
\* it stops on the loss of the root, the paths processed before have none,
\* and the entries of the root path and of the events behind it are still
\* there.
C15_RemovesProcessed ==
    [][ Returning =>
          /\ lret' = "true" =>
                \A p \in Delivered : p \notin RegNames(port_files')
          /\ lret' = "false" =>
                /\ \A p \in Processed : p \notin RegNames(port_files')
                /\ Processed = lpushed
                /\ [name |-> root_path, f |-> portevents[i]] \in port_files'
                /\ Unprocessed \subseteq RegTokens(port_files')
                /\ Delivered \ Processed \subseteq RegNames(port_files') ]_vars

\* C15 as stated: when a consumeNotify call that retrieved events returns, no
\* path whose event it retrieved has a registry entry, the root path of a
\* root-loss event and the paths behind it included.
C15_RemovesEveryRetrieved ==
    [][ Returning => \A p \in Delivered : p \notin RegNames(port_files') ]_vars

\* the root was lost on the second event of a batch: the first path was
\* pushed and removed, the root path is still registered
C15_Witness ==
    /\ cancelled /\ lret = "false"
    /\ i = 2 /\ Len(portevents) = 2
    /\ lpushed # {} /\ lpushed \cap RegNames(port_files) = {}
    /\ root_path \in RegNames(port_files)

(***************************************************************************)
(* C16                                                                     *)
(***************************************************************************)
\* C16: when consumeNotify stops on a root-loss event at position i, the
\* step pushes nothing and leaves the collection as it is; the collection
\* then holds one record for each path processed before position i, and
\* these stay; nothing was pushed for the root path, nor for any event
\* behind position i.
C16_RecordsAroundRootLoss ==
    /\ [][ (Returning /\ lret' = "false") =>
              /\ coll' = coll /\ pushes' = pushes
              /\ CollPaths(coll') = Processed ]_vars
    /\ [][ cancelled => coll' = coll /\ pushes' = pushes ]_vars
    /\ [](cancelled =>
            /\ CollPaths(coll) = lpushed
            /\ \A p \in lpushed : Cardinality(PushesOf(p)) = 1
            /\ Cardinality(lpushed) = i - 1
            /\ port_file_name[portevents[i]] = root_path
            /\ PushesOf(root_path) = {} /\ RecordsOf(coll, root_path) = {}
            /\ \A f \in Unprocessed :
                  /\ PushesOf(port_file_name[f]) = {}
                  /\ RecordsOf(coll, port_file_name[f]) = {})

\* the root-loss event came second in the batch, behind the event of
\* /root/a, whose record is in the collection after the call
C16_Witness ==
    /\ cancelled /\ lpc = "stopped"
    /\ i = 2 /\ port_file_name[portevents[1]] = NoName
    /\ CollPaths(coll) = {"/root/a"}
    /\ PushesOf(root_path) = {}

(***************************************************************************)
(* C17                                                                     *)
(***************************************************************************)
\* no do_watch and no consumeNotify call is running
Quiescent ==
    /\ \A t \in ArmThreads : pc[t] = "idle"
    /\ lpc \notin {"getn", "lock", "proc"}

\* C17: on an active root, with no call running, every path whose last
\* do_watch succeeded and whose entry was not removed since is registered
\* with an associated token; such a path loses its entry only in a
\* consumeNotify step that pushes its record, the association of its token
\* being dissolved and not renewed; and a do_watch that returns success
\* leaves its path registered with a token that is associated or whose
\* event was retrieved and still waits to be processed and pushed.
C17_NoLostNotification ==
    /\ []((Quiescent /\ ~cancelled /\ ~aborted) =>
            \A p \in armed :
                \E e \in EntriesOf(port_files, p) : e.f \in assoc)
    /\ [][ \A p \in Paths :
             (p \in armed /\ p \notin armed') =>
                 /\ Processing /\ lname' = p /\ ~cancelled'
                 /\ port_file_name[portevents[i]] = p
                 /\ portevents[i] \notin assoc
                 /\ [path |-> p, time |-> now,
                     flags |-> {W_PENDING_RECURSIVE, W_PENDING_VIA_NOTIFY}]
                       \in pushes'
                 /\ RecordsOf(coll', p) # {} ]_vars
    /\ [](\A t \in ArmThreads :
            (pc[t] = "out" /\ asuccess[t] /\ ~cancelled) =>
                \E e \in EntriesOf(port_files, aname[t]) :
                    \/ e.f \in assoc
                    \/ lpc = "lock" /\ e.f \in Batch)

\* do_watch found the entry of a path and returns success without
\* associating, while the event of that path was retrieved and consumeNotify
\* waits for the lock to push it
C17_Witness ==
    /\ ~cancelled /\ lpc = "lock"
    /\ \E t \in ArmThreads :
          /\ pc[t] = "out" /\ asuccess[t] /\ ~acalled[t]
          /\ \E e \in EntriesOf(port_files, aname[t]) :
                e.f \in Batch /\ e.f \notin assoc

(***************************************************************************)
(* C18                                                                     *)
(***************************************************************************)
\* the tokens of the retrieved events consumeNotify has still to read
ToRead ==
    IF lpc \in {"lock", "proc"}
    THEN { portevents[j] : j \in i..Len(portevents) }
    ELSE {}

\* the tokens the port holds: associated, or with an event waiting
InPort == assoc \cup { portq[j] : j \in 1..Len(portq) }

Registered(f) == [name |-> port_file_name[f], f |-> f] \in port_files

\* C18: every token consumeNotify dereferences is live.  A token the port
\* holds or whose retrieved event is still to be read is allocated and is
\* the token the registry stores for its path; when an event is processed
\* its token is the registry's token for the path it names; and a token is
\* freed only when no association, no waiting event and no event still to be
\* read refers to it.
C18_TokensLive ==
    /\ [](\A f \in ToRead \cup InPort :
            f \in LiveTokens /\ Registered(f))
    /\ [](cancelled =>
            \A f \in Unprocessed \cup {portevents[i]} :
                f \in LiveTokens /\ Registered(f))
    /\ [][ Processing =>
              /\ portevents[i] \in LiveTokens
              /\ lname' = port_file_name[portevents[i]]
              /\ EntriesOf(port_files, lname')
                    = { [name |-> lname', f |-> portevents[i]] } ]_vars
    /\ [][ \A f \in Tokens :
             (f \in LiveTokens /\ port_file_name'[f] = NoName) =>
                 /\ f \notin InPort'
                 /\ f \notin ToRead'
                 /\ f \notin RegTokens(port_files') ]_vars

\* the first event of a batch of two was processed and its token freed, the
\* second is still to be read, and a do_watch has just rolled back
C18_Witness ==
    /\ lpc = "proc" /\ i = 2 /\ Len(portevents) = 2
    /\ portevents[1] \notin LiveTokens
    /\ portevents[2] \in LiveTokens
    /\ lastFail # NoName

(***************************************************************************)
(* C19                                                                     *)
(***************************************************************************)
\* C19: do_watch and consumeNotify release the lock on every return path: a
\* thread outside these calls, or waiting to enter the critical section,
\* does not hold it.  So, when a waiting thread gets the mutex that is free
\* again and again, every do_watch call and every consumeNotify call that
\* starts returns, unless the process is terminated first.
C19_LockReleased ==
    /\ [][ \A t \in ArmThreads :
             (ArmStepped(t) /\ pc'[t] = "idle") => lock' = NoOwner ]_vars
    /\ [][ (LoopStepped /\ lpc \in {"getn", "proc"} /\ lpc' = "top")
             => lock' # LOOP ]_vars
    /\ [](\A t \in ArmThreads : pc[t] \in {"idle", "lock"} => lock # t)
    /\ [](lpc # "proc" => lock # LOOP)
    /\ \A t \in ArmThreads : (pc[t] = "lock") ~> (pc[t] = "idle" \/ aborted)
    /\ (lpc = "getn") ~> (lpc = "top" \/ aborted)

\* consumeNotify with a retrieved batch and an enumeration thread both wait
\* for the lock the other enumeration thread holds
C19_Witness ==
    /\ lpc = "lock"
    /\ \E t, u \in ArmThreads :
          /\ t # u
          /\ pc[t] = "lock"
          /\ lock = u /\ pc[u] = "assoc"

(***************************************************************************)
(* C20                                                                     *)
(***************************************************************************)
\* C20: every record consumeNotify pushes carries a timestamp read from the
\* clock during the call: not before the time the call was entered and not
\* after the time of the push; so no call pushes an earlier timestamp than a
\* call before it did.
C20_TimestampsFromClock ==
    [][ Processing =>
          \A x \in pushes' \ pushes : lclock <= x.time /\ x.time <= clock ]_vars

====
